---- MODULE Spec2Model ----
(* Model of examples/client.py: a single multipart/form-data upload.       *)
(* file_sender is an async generator that yields a file in 64 KiB chunks;  *)
(* req() registers three file fields and three text fields on a FormData,  *)
(* posts it once, prints the response text and asserts on the status.      *)
(*                                                                         *)
(* A chunk is kept in the state as the byte range [lo, hi) of the file it  *)
(* was read from; Data(c) gives its bytes.                                  *)
EXTENDS Integers, Sequences, FiniteSets, TLC

----------------------------------------------------------------------------
(* Bounds and program constants *)

MaxFullChunks == 2

ChunkSize == 64 * 1024

ExpectedStatus == 201

FileSizes == { k * ChunkSize + d : k \in 0..MaxFullChunks, d \in {0, 1, ChunkSize - 1} }

Seeds == {3, 5}

FileStates == {"readable", "missing", "unreadable"}

Statuses == {200, 201, 400, 500}

Texts == {"created", "error"}

NoChunk == [lo |-> -1, hi |-> -1]

NoFilename == "None"

VARIABLES
    fileSize,   \* size in bytes of test.png
    fileSeed,   \* selects the content of test.png
    fileState,  \* test.png is readable, missing or unreadable
    data,       \* FormData: the fields registered so far, in list order
    gen,        \* state of each file_sender generator
    handle,     \* state of the file handle of each generator
    pos,        \* read position of the file handle of each generator
    delivered,  \* chunks yielded so far by each generator
    pending,    \* chunk yielded to the body writer and not yet written
    cur,        \* index of the part the body writer is at
    sent,       \* parts written to the transport so far
    resp,       \* the response: status and text
    out,        \* what print() has written
    pc,         \* phase of the request
    exc,        \* exception that left req()
    cause,      \* the error the exception was raised from
    posts       \* number of POST requests issued

vars == <<fileSize, fileSeed, fileState, data, gen, handle, pos, delivered,
          pending, cur, sent, resp, out, pc, exc, cause, posts>>

----------------------------------------------------------------------------
(* Bytes *)

Min(a, b) == IF a < b THEN a ELSE b

\* byte of test.png at offset i (0-based)
ByteAt(seed, i) == (i * seed + (i \div 256)) % 256

FileBytes == [k \in 1..fileSize |-> ByteAt(fileSeed, k - 1)]

SliceLen(c) == c.hi - c.lo

Data(c) == [k \in 1..SliceLen(c) |-> ByteAt(fileSeed, c.lo + k - 1)]

RECURSIVE ConcatData(_)
ConcatData(cs) == IF cs = <<>> THEN <<>> ELSE Data(Head(cs)) \o ConcatData(Tail(cs))

RECURSIVE SumLen(_)
SumLen(cs) == IF cs = <<>> THEN 0 ELSE SliceLen(Head(cs)) + SumLen(Tail(cs))

----------------------------------------------------------------------------
(* file_sender *)

ReadShort(p, n, size) == [lo |-> p, hi |-> Min(p + n - 1, size)]

\* f.read(n) at position p of a file of the given size
Read(p, n, size) == [lo |-> p, hi |-> Min(p + n, size)]

LoopTestAlways(c) == TRUE

\* while chunk:
LoopTest(c) == SliceLen(c) > 0

OpenResultIgnore(st) == "open"

\* aiofiles.open(file_name, 'rb')
OpenResult(st) ==
    CASE st = "readable" -> "open"
      [] st = "missing" -> "FileNotFoundError"
      [] st = "unreadable" -> "PermissionError"

----------------------------------------------------------------------------
(* req *)

SourceShared(k) == 1

\* every add_field call of a file field gets a generator of its own
SourceOf(k) == k

\* the add_field calls of req(), in program order
Calls == <<
    [name |-> "files[]", kind |-> "file", filename |-> "image1.png", value |-> "", src |-> SourceOf(1)],
    [name |-> "files[]", kind |-> "file", filename |-> "image2.png", value |-> "", src |-> SourceOf(2)],
    [name |-> "files[]", kind |-> "file", filename |-> "image3.png", value |-> "", src |-> SourceOf(3)],
    [name |-> "Hey",     kind |-> "text", filename |-> NoFilename, value |-> "hi",  src |-> 0],
    [name |-> "Hi[One]", kind |-> "text", filename |-> NoFilename, value |-> "1",   src |-> 0],
    [name |-> "Hi[Two]", kind |-> "text", filename |-> NoFilename, value |-> "2.0", src |-> 0] >>

Readers == 1..3

AddFieldFront(d, f) == <<f>> \o d

\* FormData.add_field
AddFieldOp(d, f) == Append(d, f)

AfterWriteInterleaved(c) == c + 1

\* the body writer stays on a part until its content source is exhausted
AfterWrite(c) == c

StatusOk2xx(s) == s >= 200 /\ s < 300

\* assert 201 == resp.status
StatusOk(s) == ExpectedStatus = s

AssertOutcomeRetry(ok) == IF ok THEN "Done" ELSE "Idle"

\* a failed assert raises out of req() and run_until_complete
AssertOutcome(ok) == IF ok THEN "Done" ELSE "ValidationFailed"

AssertReadyAnytime(o) == TRUE

\* print(text) is the statement before the assert
AssertReady(o) == Len(o) > 0

ErrorStates == {"ConnectFailed", "SendFailed", "ValidationFailed"}

Terminal == ErrorStates \cup {"Done"}

----------------------------------------------------------------------------

Init ==
    /\ fileSize \in FileSizes
    /\ fileSeed \in Seeds
    /\ fileState \in FileStates
    /\ data = <<>>
    /\ gen = [i \in Readers |-> "created"]
    /\ handle = [i \in Readers |-> "none"]
    /\ pos = [i \in Readers |-> 0]
    /\ delivered = [i \in Readers |-> <<>>]
    /\ pending = NoChunk
    /\ cur = 0
    /\ sent = <<>>
    /\ resp = [status |-> 0, text |-> ""]
    /\ out = <<>>
    /\ pc = "Idle"
    /\ exc = "none"
    /\ cause = "none"
    /\ posts = 0

\* data.add_field(...)
AddField ==
    /\ pc = "Idle"
    /\ Len(data) < Len(Calls)
    /\ data' = AddFieldOp(data, Calls[Len(data) + 1])
    /\ UNCHANGED <<fileSize, fileSeed, fileState, gen, handle, pos, delivered,
                   pending, cur, sent, resp, out, pc, exc, cause, posts>>

\* session.post(url, data=data)
Post ==
    /\ pc = "Idle"
    /\ Len(data) = Len(Calls)
    /\ pc' = "Connecting"
    /\ posts' = posts + 1
    /\ UNCHANGED <<fileSize, fileSeed, fileState, data, gen, handle, pos, delivered,
                   pending, cur, sent, resp, out, exc, cause>>

ConnectOk ==
    /\ pc = "Connecting"
    /\ pc' = "Sending"
    /\ cur' = 1
    /\ UNCHANGED <<fileSize, fileSeed, fileState, data, gen, handle, pos, delivered,
                   pending, sent, resp, out, exc, cause, posts>>

ConnectFail ==
    /\ pc = "Connecting"
    /\ pc' = "ConnectFailed"
    /\ exc' = "ClientConnectorError"
    /\ cause' = "ConnectionRefusedError"
    /\ UNCHANGED <<fileSize, fileSeed, fileState, data, gen, handle, pos, delivered,
                   pending, cur, sent, resp, out, posts>>

\* the body writer is at a part whose headers are written
AtPart(kind) ==
    /\ pc = "Sending"
    /\ cur \in 1..Len(data)
    /\ Len(sent) = cur
    /\ data[cur].kind = kind

\* boundary and headers of the next part
StartPart ==
    /\ pc = "Sending"
    /\ cur \in 1..Len(data)
    /\ Len(sent) = cur - 1
    /\ sent' = Append(sent, [name |-> data[cur].name, filename |-> data[cur].filename,
                             chunks |-> <<>>, text |-> ""])
    /\ UNCHANGED <<fileSize, fileSeed, fileState, data, gen, handle, pos, delivered,
                   pending, cur, resp, out, pc, exc, cause, posts>>

WriteText ==
    /\ AtPart("text")
    /\ sent' = [sent EXCEPT ![cur].text = data[cur].value]
    /\ cur' = cur + 1
    /\ UNCHANGED <<fileSize, fileSeed, fileState, data, gen, handle, pos, delivered,
                   pending, resp, out, pc, exc, cause, posts>>

\* first pull of a generator: async with aiofiles.open(...)
OpenFile ==
    /\ AtPart("file")
    /\ LET i == data[cur].src IN
        /\ gen[i] = "created"
        /\ IF OpenResult(fileState) = "open"
           THEN /\ gen' = [gen EXCEPT ![i] = "opened"]
                /\ handle' = [handle EXCEPT ![i] = "open"]
                /\ pos' = [pos EXCEPT ![i] = 0]
                /\ UNCHANGED <<pc, exc, cause>>
           ELSE /\ gen' = [gen EXCEPT ![i] = "raised"]
                /\ cause' = OpenResult(fileState)
                /\ exc' = "ClientOSError"
                /\ pc' = "SendFailed"
                /\ UNCHANGED <<handle, pos>>
    /\ UNCHANGED <<fileSize, fileSeed, fileState, data, delivered, pending, cur,
                   sent, resp, out, posts>>

\* chunk = await f.read(64*1024); while chunk: yield chunk
ReadChunk ==
    /\ AtPart("file")
    /\ pending = NoChunk
    /\ LET i == data[cur].src
           c == Read(pos[i], ChunkSize, fileSize) IN
        /\ gen[i] \in {"opened", "yielded"}
        /\ pos' = [pos EXCEPT ![i] = c.hi]
        /\ IF LoopTest(c)
           THEN /\ gen' = [gen EXCEPT ![i] = "yielded"]
                /\ pending' = c
                /\ delivered' = [delivered EXCEPT ![i] = Append(@, c)]
                /\ UNCHANGED handle
           ELSE /\ gen' = [gen EXCEPT ![i] = "done"]
                /\ handle' = [handle EXCEPT ![i] = "closed"]
                /\ UNCHANGED <<pending, delivered>>
    /\ UNCHANGED <<fileSize, fileSeed, fileState, data, cur, sent, resp, out, pc,
                   exc, cause, posts>>

\* f.read raises: the async with block closes the file on the way out
ReadFault ==
    /\ AtPart("file")
    /\ pending = NoChunk
    /\ LET i == data[cur].src IN
        /\ gen[i] \in {"opened", "yielded"}
        /\ gen' = [gen EXCEPT ![i] = "raised"]
        /\ handle' = [handle EXCEPT ![i] = "closed"]
    /\ cause' = "OSError"
    /\ exc' = "ClientOSError"
    /\ pc' = "SendFailed"
    /\ UNCHANGED <<fileSize, fileSeed, fileState, data, pos, delivered, pending, cur,
                   sent, resp, out, posts>>

\* the yielded chunk goes to the transport
WriteChunk ==
    /\ AtPart("file")
    /\ pending # NoChunk
    /\ sent' = [sent EXCEPT ![cur].chunks = Append(@, pending)]
    /\ pending' = NoChunk
    /\ cur' = AfterWrite(cur)
    /\ UNCHANGED <<fileSize, fileSeed, fileState, data, gen, handle, pos, delivered,
                   resp, out, pc, exc, cause, posts>>

\* the generator of the part has ended: on to the next part
EndPart ==
    /\ AtPart("file")
    /\ pending = NoChunk
    /\ gen[data[cur].src] = "done"
    /\ cur' = cur + 1
    /\ UNCHANGED <<fileSize, fileSeed, fileState, data, gen, handle, pos, delivered,
                   pending, sent, resp, out, pc, exc, cause, posts>>

\* a write to the transport fails; a generator suspended at its yield stays there
SendFail ==
    /\ pc = "Sending"
    /\ pc' = "SendFailed"
    /\ exc' = "ClientOSError"
    /\ cause' = "ConnectionResetError"
    /\ UNCHANGED <<fileSize, fileSeed, fileState, data, gen, handle, pos, delivered,
                   pending, cur, sent, resp, out, posts>>

\* closing boundary written
FinishBody ==
    /\ pc = "Sending"
    /\ cur = Len(data) + 1
    /\ pc' = "AwaitingResponse"
    /\ UNCHANGED <<fileSize, fileSeed, fileState, data, gen, handle, pos, delivered,
                   pending, cur, sent, resp, out, exc, cause, posts>>

\* async with session.post(...) as resp
RecvHeaders ==
    /\ pc = "AwaitingResponse"
    /\ resp.status = 0
    /\ \E s \in Statuses : resp' = [resp EXCEPT !.status = s]
    /\ UNCHANGED <<fileSize, fileSeed, fileState, data, gen, handle, pos, delivered,
                   pending, cur, sent, out, pc, exc, cause, posts>>

\* the connection drops while the response is awaited or its body is read;
\* like a failed write it leaves req() as a client error after the connect
RecvFail ==
    /\ pc = "AwaitingResponse"
    /\ pc' = "SendFailed"
    /\ exc' = IF resp.status = 0 THEN "ServerDisconnectedError" ELSE "ClientPayloadError"
    /\ cause' = "ConnectionResetError"
    /\ UNCHANGED <<fileSize, fileSeed, fileState, data, gen, handle, pos, delivered,
                   pending, cur, sent, resp, out, posts>>

\* text = await resp.text()
RecvText ==
    /\ pc = "AwaitingResponse"
    /\ resp.status # 0
    /\ \E t \in Texts : resp' = [resp EXCEPT !.text = t]
    /\ pc' = "Validating"
    /\ UNCHANGED <<fileSize, fileSeed, fileState, data, gen, handle, pos, delivered,
                   pending, cur, sent, out, exc, cause, posts>>

\* print(text)
PrintText ==
    /\ pc = "Validating"
    /\ out = <<>>
    /\ out' = Append(out, resp.text)
    /\ UNCHANGED <<fileSize, fileSeed, fileState, data, gen, handle, pos, delivered,
                   pending, cur, sent, resp, pc, exc, cause, posts>>

\* assert 201 == resp.status
AssertStatus ==
    /\ pc = "Validating"
    /\ AssertReady(out)
    /\ pc' = AssertOutcome(StatusOk(resp.status))
    /\ exc' = IF StatusOk(resp.status) THEN exc ELSE "AssertionError"
    /\ UNCHANGED <<fileSize, fileSeed, fileState, data, gen, handle, pos, delivered,
                   pending, cur, sent, resp, out, cause, posts>>

Next ==
    \/ AddField
    \/ Post
    \/ ConnectOk
    \/ ConnectFail
    \/ StartPart
    \/ WriteText
    \/ OpenFile
    \/ ReadChunk
    \/ ReadFault
    \/ WriteChunk
    \/ EndPart
    \/ SendFail
    \/ FinishBody
    \/ RecvHeaders
    \/ RecvFail
    \/ RecvText
    \/ PrintText
    \/ AssertStatus

Spec == Init /\ [][Next]_vars

----------------------------------------------------------------------------
(* Properties *)

\* reader i has just signalled end-of-stream to the body writer
EndOfStream(i) ==
    /\ AtPart("file")
    /\ data[cur].src = i
    /\ gen[i] = "done"

\* the content source of part k has just ended
PartComplete(k) ==
    /\ AtPart("file")
    /\ cur = k
    /\ pending = NoChunk
    /\ gen[data[k].src] = "done"

\* C1: pulling chunks from file_sender until end-of-stream yields chunks
\* whose lengths sum to the file size, every chunk but possibly the last is
\* exactly 65536 bytes long, and the chunks concatenated in delivery order
\* are the bytes of the file.
C1_Chunking ==
    \A i \in Readers :
        /\ \A k \in 1..Len(delivered[i]) :
              /\ SliceLen(delivered[i][k]) <= 65536
              /\ k < Len(delivered[i]) => SliceLen(delivered[i][k]) = 65536
        /\ gen[i] = "done" => SumLen(delivered[i]) = fileSize
        /\ EndOfStream(i) => ConcatData(delivered[i]) = FileBytes

C1_Witness ==
    /\ EndOfStream(1)
    /\ Len(delivered[1]) = 2
    /\ SliceLen(delivered[1][2]) = 1

\* C2: the parts of the transmitted body are in the order of the add_field
\* calls: files[]/image1.png, files[]/image2.png, files[]/image3.png, Hey,
\* Hi[One], Hi[Two].
C2_FieldOrder ==
    LET order == << <<"files[]", "image1.png">>, <<"files[]", "image2.png">>,
                    <<"files[]", "image3.png">>, <<"Hey", NoFilename>>,
                    <<"Hi[One]", NoFilename>>, <<"Hi[Two]", NoFilename>> >> IN
    /\ Len(sent) <= Len(order)
    /\ \A k \in 1..Len(sent) : <<sent[k].name, sent[k].filename>> = order[k]
    /\ pc \in {"AwaitingResponse", "Validating", "Done", "ValidationFailed"}
          => Len(sent) = Len(order)

C2_Witness ==
    /\ pc = "Done"
    /\ Len(sent) = 6
    /\ sent[6].text = "2.0"

\* C3: the request ends in Done exactly when the response status is 201; any
\* other status raises an AssertionError and the request ends in
\* ValidationFailed.
C3_Validate ==
    /\ pc = "Done" => resp.status = 201 /\ exc = "none"
    /\ pc = "ValidationFailed" => resp.status # 201 /\ exc = "AssertionError"
    /\ exc = "AssertionError" => pc = "ValidationFailed"

C3_Witness ==
    /\ pc = "ValidationFailed"
    /\ resp.status = 400

\* C4: no terminal state of the request is reached with a file handle still
\* open.
C4_HandlesReleased ==
    pc \in Terminal => \A i \in Readers : handle[i] # "open"

\* C5: the three fields named files[] give three parts, each with its own
\* filename and each with the complete content of the source file.
C5_RepeatedNames ==
    \A k \in 1..3 :
        /\ (Len(sent) >= k /\ cur > k) =>
              /\ sent[k].name = "files[]"
              /\ \A j \in 1..(k - 1) : sent[j].filename # sent[k].filename
              /\ SumLen(sent[k].chunks) = fileSize
        /\ PartComplete(k) => ConcatData(sent[k].chunks) = FileBytes

C5_Witness ==
    /\ PartComplete(3)
    /\ fileSize > ChunkSize
    /\ Len(sent[3].chunks) = 2

C7_PrintBeforeAssert ==
    /\ pc \in {"Done", "ValidationFailed"} => out = <<resp.text>>
    /\ exc = "AssertionError" => out # <<>>

C7_Witness ==
    /\ pc = "ValidationFailed"
    /\ out = <<"error">>

\* C8: a 0-byte file gives end-of-stream at once with no chunk delivered, and
\* no reader ever delivers an empty chunk.
C8_EmptyFile ==
    \A i \in Readers :
        /\ fileSize = 0 => delivered[i] = <<>> /\ gen[i] # "yielded"
        /\ \A k \in 1..Len(delivered[i]) : SliceLen(delivered[i][k]) > 0
        /\ pending # NoChunk => SliceLen(pending) > 0

C8_Witness ==
    /\ fileSize = 0
    /\ gen[1] = "done"
    /\ handle[1] = "closed"

\* C9: the request moves only along Idle -> Connecting -> Sending ->
\* AwaitingResponse -> Validating -> Done or from one of these into an error
\* state; Done and the error states are terminal and one POST is issued at
\* most.
C9_StateMachine ==
    [][ /\ \/ pc' = pc
           \/ <<pc, pc'>> \in { <<"Idle", "Connecting">>, <<"Connecting", "Sending">>,
                                <<"Sending", "AwaitingResponse">>,
                                <<"AwaitingResponse", "Validating">>,
                                <<"Validating", "Done">> }
           \/ pc \notin Terminal /\ pc' \in ErrorStates
        /\ pc \in Terminal => pc' = pc
        /\ posts' <= 1 ]_vars

C9_Witness ==
    /\ pc = "ValidationFailed"
    /\ posts = 1

\* C10: the file parts are drained one after the other in registration
\* order: a later reader is not started before the earlier one has reached
\* end-of-stream, so one reader at most is mid-stream.
C10_Sequential ==
    /\ Cardinality({i \in Readers : gen[i] \in {"opened", "yielded"}}) <= 1
    /\ \A i, j \in Readers :
          (i < j /\ gen[j] # "created") => gen[i] = "done"
    /\ \A i, j \in 1..Len(sent) :
          (i < j /\ j <= 3) => sent[i].chunks = delivered[i]

C10_Witness ==
    /\ gen[1] = "done"
    /\ gen[2] = "yielded"
    /\ gen[3] = "created"

====
